---- MODULE Spec2Model ----
(***************************************************************************)
(* Model of src/main.py, a Streamlit inventory dashboard.                  *)
(*                                                                         *)
(* Two parts of the script carry state worth checking:                     *)
(*   - the "Carga Masiva (CSV)" run (lines 215-255): one pass over the     *)
(*     rows of an uploaded DataFrame, one stored-procedure call per row;   *)
(*   - the "Registrar (Manual)" and "Gestion Productos" pages (lines       *)
(*     147-210 and 260-326): forms whose fields live in st.session_state   *)
(*     and are reset through the flags mov_reset / prod_reset.             *)
(*                                                                         *)
(* Spec      is the bulk-import run.                                       *)
(* SpecForms is the sequence of renders of the two form pages.             *)
(*                                                                         *)
(* Numbers read from the CSV are kept in tenths (d = 25 is 2.5), so that   *)
(* int() truncates and float() does not.                                   *)
(***************************************************************************)
EXTENDS Integers, Sequences, FiniteSets, TLC

\* Largest number of data rows of the uploaded file.
MaxRows == 3

VARIABLES
    \* ---- Carga Masiva ----
    pc,          \* position of the script in the Carga Masiva branch
    df_upload,   \* shape of the DataFrame read from the file
    conn,        \* the run's connection: "sin" | "abierta" | "None" | "cerrada"
    pos,         \* number of loop iterations begun (position of the next row)
    exitos,      \* line 227
    errores,     \* line 228: the failures, in the order appended
    saltadas,    \* ghost: number of rows that left the body through `continue`
    barra,       \* ghost: values given to barra.progress, as numerators over len(df_upload)
    llamadas,    \* ghost: positions of the rows for which cur.execute was called
    ult,         \* ghost: the last iteration (row, label, outcome, call)
    avisos,      \* messages shown with st.error / st.success
    \* ---- form pages ----
    menu,          \* line 76: the page chosen in the sidebar
    fase,          \* position of the script in a form page render
    session_state, \* st.session_state: a function from keys to values
    conn_pag,      \* the connection opened by the current render
    lista_prods,   \* line 152
    categorias,    \* line 262
    ultf           \* ghost: what the last form step did

varsCarga == <<pc, df_upload, conn, pos, exitos, errores, saltadas, barra, llamadas, ult, avisos>>
varsForms == <<menu, fase, session_state, conn_pag, lista_prods, categorias, ultf>>
vars == <<pc, df_upload, conn, pos, exitos, errores, saltadas, barra, llamadas, ult, avisos,
          menu, fase, session_state, conn_pag, lista_prods, categorias, ultf>>

-----------------------------------------------------------------------------
(* Cells of the DataFrame.                                                 *)

NaN == [t |-> "nan", s |-> "", d |-> 0]
Num(d) == [t |-> "num", s |-> "", d |-> d]
Str(s) == [t |-> "str", s |-> s, d |-> 0]

\* pd.notna / pd.isna on a scalar
notna(v) == v.t # "nan"
isna(v) == v.t = "nan"

\* Truncation toward zero of a value in tenths.
Trunc(d) == IF d >= 0 THEN d \div 10 ELSE -((-d) \div 10)

\* int(x), line 243: a number is truncated (int(nan) raises ValueError); a
\* string must be an integer literal.
int(v) ==
    CASE v.t = "num" -> [ok |-> TRUE, v |-> Trunc(v.d)]
      [] v.t = "str" /\ v.s = "7" -> [ok |-> TRUE, v |-> 7]
      [] OTHER -> [ok |-> FALSE, v |-> 0]

\* float(x), line 243: a number is kept, nan included (float(nan) is nan and
\* does not raise); a string must be a decimal literal. The result is in
\* tenths; nan tells that it is not a number.
float(v) ==
    CASE v.t = "num" -> [ok |-> TRUE, v |-> v.d, nan |-> FALSE]
      [] v.t = "nan" -> [ok |-> TRUE, v |-> 0, nan |-> TRUE]
      [] v.t = "str" /\ v.s = "7" -> [ok |-> TRUE, v |-> 70, nan |-> FALSE]
      [] v.t = "str" /\ v.s = "2.5" -> [ok |-> TRUE, v |-> 25, nan |-> FALSE]
      [] OTHER -> [ok |-> FALSE, v |-> 0, nan |-> FALSE]

\* The cells the model draws: an empty cell, a number (2.5), and the texts
\* of a column that pandas read as strings.
SkuCeldas == {NaN, Str("A1")}
CantCeldas == {NaN, Num(25), Str("7"), Str("2.5"), Str("x")}
ValCeldas == {NaN, Num(25), Str("2.5"), Str("x")}

Columnas == {"Código", "cant", "Valor Unitar"}

CeldasDe(c) ==
    IF c = "Código" THEN SkuCeldas ELSE IF c = "cant" THEN CantCeldas ELSE ValCeldas

\* The rows a DataFrame with columns `cols` can hold.
Filas(cols) == {f \in [cols -> SkuCeldas \cup CantCeldas \cup ValCeldas] : \A c \in cols : f[c] \in CeldasDe(c)}

\* Index labels. pd.read_csv gives a RangeIndex (label = position) unless the
\* data lines hold more fields than the header; then the first field of each
\* line is the label: a text, or a number.
Pos(k) == [txt |-> FALSE, n |-> k]
Etiquetas == {[txt |-> TRUE, n |-> 0], Pos(0), Pos(1)}

EtiquetasDe(indice, k) == IF indice = "range" THEN {Pos(k)} ELSE Etiquetas

DataFrames ==
    [filas : 0..MaxRows, cols : SUBSET Columnas, indice : {"range", "implicit"}]

-----------------------------------------------------------------------------
(* get_connection, lines 15-28: a connection, or st.error and None.        *)

get_connection(ok) ==
    IF ok THEN [conn |-> "abierta", aviso |-> {}]
          ELSE [conn |-> "None", aviso |-> {"Error conectando a la BD"}]

-----------------------------------------------------------------------------
(* st.session_state: a function from keys to values.                       *)

SinEstado == [k \in {} |-> TRUE]

Tiene(ss, k) == k \in DOMAIN ss

\* st.session_state[k] = v
Poner(ss, k, v) == [x \in DOMAIN ss \cup {k} |-> IF x = k THEN v ELSE ss[x]]

\* st.session_state.pop(k)
Quitar(ss, k) == [x \in DOMAIN ss \ {k} |-> ss[x]]

\* st.session_state.get(k, False), for a flag
Bandera(ss, k) == Tiene(ss, k) /\ ss[k] = TRUE

\* `if k not in st.session_state: st.session_state[k] = v`
PorDefecto(ss, k, v) == IF Tiene(ss, k) THEN ss ELSE Poner(ss, k, v)

-----------------------------------------------------------------------------
(* The body of the row loop, lines 231-247.                                *)

SinLlamada == [hecha |-> FALSE, sku |-> "", cantidad |-> 0, valor |-> 0, nan |-> FALSE]

Salida(res, e, llamada) == [res |-> res, e |-> e, llamada |-> llamada]

\* Lines 234-235: `row[c] if pd.notna(row[c]) else 0`.
Resolver(row, c) == IF notna(row[c]) THEN row[c] ELSE Num(0)

\* Lines 239-245, once sku, cant and val are bound and the SKU is not null.
\* conn.cursor() is evaluated first, then the arguments int(cant), float(val),
\* then cur.execute; ok is the stored procedure's answer.
Enviar(sku, cant, val, connv, ok) ==
    IF connv # "abierta" THEN Salida("error", "AttributeError", SinLlamada)
    ELSE IF ~int(cant).ok THEN Salida("error", "ValueError", SinLlamada)
    ELSE IF ~float(val).ok THEN Salida("error", "ValueError", SinLlamada)
    ELSE LET ll == [hecha |-> TRUE, sku |-> sku.s,
                    cantidad |-> int(cant).v, valor |-> float(val).v,
                    nan |-> float(val).nan]
         IN IF ok THEN Salida("exito", "", ll) ELSE Salida("error", "DBError", ll)

\* Lines 231-247: the try block of one iteration. The three columns are read
\* (KeyError when one is missing) before the SKU is tested for null.
CuerpoFila(row, connv, ok) ==
    IF "Código" \notin DOMAIN row THEN Salida("error", "KeyError", SinLlamada)
    ELSE IF "cant" \notin DOMAIN row THEN Salida("error", "KeyError", SinLlamada)
    ELSE IF "Valor Unitar" \notin DOMAIN row THEN Salida("error", "KeyError", SinLlamada)
    ELSE IF isna(row["Código"]) THEN Salida("salto", "", SinLlamada)
    ELSE Enviar(row["Código"], Resolver(row, "cant"), Resolver(row, "Valor Unitar"),
                connv, ok)

\* Mutant of ContarExito: the increment placed before cur.execute returns.
ContarExitoAntes(r, n) == IF r.llamada.hecha THEN n + 1 ELSE n

\* Line 245: exitos += 1, reached only when cur.execute returned.
ContarExito(r, n) == IF r.res = "exito" THEN n + 1 ELSE n

\* Lines 246-247: errores.append(f"Fila {i}: {e}").
AnotarError(r, et, errs) ==
    IF r.res = "error" THEN Append(errs, [fila |-> et, e |-> r.e]) ELSE errs

\* Line 248: barra.progress((i + 1) / len(df_upload)), i being the index label.
\* `i + 1` raises TypeError on a text label; st.progress raises on a value
\* outside [0.0, 1.0]. The value is kept as its numerator over n.
Progreso(et, n) ==
    IF et.txt THEN [ok |-> FALSE, v |-> 0]
    ELSE IF et.n + 1 < 0 \/ et.n + 1 > n THEN [ok |-> FALSE, v |-> 0]
    ELSE [ok |-> TRUE, v |-> et.n + 1]

-----------------------------------------------------------------------------
(* Carga Masiva: the actions.                                              *)

UltNada == [fila |-> <<>>, et |-> Pos(0), res |-> "", e |-> "",
            llamada |-> SinLlamada, barra |-> ""]

InitCarga ==
    /\ pc = "subido"
    /\ df_upload = [filas |-> 0, cols |-> {}, indice |-> "range"]
    /\ conn = "sin"
    /\ pos = 0
    /\ exitos = 0
    /\ errores = <<>>
    /\ saltadas = 0
    /\ barra = <<>>
    /\ llamadas = <<>>
    /\ ult = UltNada
    /\ avisos = {}

UltfNada == [envio |-> "no", reseteo |-> FALSE]

InitForms ==
    /\ menu = "manual"
    /\ fase = "idle"
    /\ session_state = SinEstado
    /\ conn_pag = "sin"
    /\ lista_prods = <<>>
    /\ categorias = <<>>
    /\ ultf = UltfNada

Init == InitCarga /\ InitForms

\* Line 221: pd.read_csv returns a DataFrame.
Leer ==
    /\ pc = "subido"
    /\ \E df \in DataFrames : df_upload' = df
    /\ pc' = "vista"
    /\ UNCHANGED <<conn, pos, exitos, errores, saltadas, barra, llamadas, ult, avisos>>
    /\ UNCHANGED varsForms

\* Line 221 raises: the outer except, lines 254-255.
LeerFalla ==
    /\ pc = "subido"
    /\ pc' = "error"
    /\ avisos' = avisos \cup {"Error leyendo el archivo"}
    /\ UNCHANGED <<df_upload, conn, pos, exitos, errores, saltadas, barra, llamadas, ult>>
    /\ UNCHANGED varsForms

\* Lines 224-228: the button, get_connection, st.progress(0), the counters.
Procesar ==
    /\ pc = "vista"
    /\ \E ok \in BOOLEAN :
         /\ conn' = get_connection(ok).conn
         /\ avisos' = avisos \cup get_connection(ok).aviso
    /\ barra' = <<0>>
    /\ exitos' = 0
    /\ errores' = <<>>
    /\ pc' = "loop"
    /\ UNCHANGED <<df_upload, pos, saltadas, llamadas, ult>>
    /\ UNCHANGED varsForms

\* Lines 230-248: one iteration. `continue` (line 237) leaves the body before
\* line 248; an exception of line 248 is outside the inner try and reaches the
\* outer except of lines 254-255, which ends the run.
Fila ==
    /\ pc = "loop"
    /\ pos < df_upload.filas
    /\ \E row \in Filas(df_upload.cols), et \in EtiquetasDe(df_upload.indice, pos),
          ok \in BOOLEAN :
         LET r == CuerpoFila(row, conn, ok)
             p == Progreso(et, df_upload.filas)
             b == IF r.res = "salto" THEN "no" ELSE IF p.ok THEN "si" ELSE "raise"
         IN /\ exitos' = ContarExito(r, exitos)
            /\ errores' = AnotarError(r, et, errores)
            /\ saltadas' = IF r.res = "salto" THEN saltadas + 1 ELSE saltadas
            /\ llamadas' = IF r.llamada.hecha THEN Append(llamadas, pos) ELSE llamadas
            /\ ult' = [fila |-> row, et |-> et, res |-> r.res, e |-> r.e,
                       llamada |-> r.llamada, barra |-> b]
            /\ barra' = IF b = "si" THEN Append(barra, p.v) ELSE barra
            /\ pc' = IF b = "raise" THEN "error" ELSE "loop"
            /\ avisos' = IF b = "raise" THEN avisos \cup {"Error leyendo el archivo"}
                         ELSE avisos
    /\ pos' = pos + 1
    /\ UNCHANGED <<df_upload, conn>>
    /\ UNCHANGED varsForms

\* Lines 250-252 after the loop: conn.close() (AttributeError on None, caught
\* by the outer except), then st.success and the list of failures.
Cerrar ==
    /\ pc = "loop"
    /\ pos = df_upload.filas
    /\ IF conn = "None"
       THEN /\ pc' = "error"
            /\ avisos' = avisos \cup {"Error leyendo el archivo"}
            /\ UNCHANGED conn
       ELSE /\ conn' = "cerrada"
            /\ pc' = "fin"
            /\ avisos' = avisos \cup {"Proceso finalizado"}
    /\ UNCHANGED <<df_upload, pos, exitos, errores, saltadas, barra, llamadas, ult>>
    /\ UNCHANGED varsForms

-----------------------------------------------------------------------------
(* The form pages: helpers.                                                *)

\* What obtener_lista_productos (lines 31-45) can return: [] when the
\* connection or the query fails, else the "sku - nombre" options.
ListasProductos == {<<>>, <<"P1 - uno", "P2 - dos">>}

\* What obtener_categorias (lines 48-70) can return.
ListasCategorias == {<<>>, <<"c1", "c2">>}

Elementos(q) == {q[i] : i \in DOMAIN q}

\* Line 190: producto_seleccionado.split(" - ")[0]
SkuReal(opcion) ==
    CASE opcion = "P1 - uno" -> "P1"
      [] opcion = "P2 - dos" -> "P2"
      [] OTHER -> opcion

\* str.strip() on the texts of the model
strip(t) == IF t = " " THEN "" ELSE t

\* Whether the value st.session_state holds under a selectbox key is one of
\* the options. When it is not, Streamlit either raises while it creates the
\* widget or falls back to the first option, depending on its version: the
\* actions take both outcomes (estricto).
OpcionValida(ss, k, opciones) ==
    opciones = <<>> \/ ~Tiene(ss, k) \/ ss[k] \in Elementos(opciones)

\* st.selectbox(label, opciones, key=k): None (here "") without options, the
\* session value when it is an option, else the first option.
selectbox(ss, k, opciones) ==
    IF opciones = <<>> THEN ""
    ELSE IF Tiene(ss, k) /\ ss[k] \in Elementos(opciones) THEN ss[k]
    ELSE opciones[1]

\* st.session_state after a widget of key k returned v. The script writes
\* nothing here: when v is not the value held under k (no value, or one that
\* is not an option), Streamlit either stores v under k or leaves
\* st.session_state as it is (writeback).
WidgetEstado(ss, k, v, writeback) == IF writeback THEN Poner(ss, k, v) ELSE ss

PrimerProducto(lp) == IF lp # <<>> THEN lp[1] ELSE ""

\* Mutant of ResetMov: the fields are reset and the flag is left in place.
ResetMovSinPop(ss, lp) ==
    IF Bandera(ss, "mov_reset")
    THEN Poner(Poner(Poner(Poner(Poner(ss,
             "mov_producto", PrimerProducto(lp)),
             "mov_tipo", "ENTRADA"),
             "mov_fecha", "hoy"),
             "mov_cantidad", 1),
             "mov_valor", 0)
    ELSE ss

\* Lines 155-161: the reset block of the manual page.
ResetMov(ss, lp) ==
    IF Bandera(ss, "mov_reset")
    THEN Quitar(Poner(Poner(Poner(Poner(Poner(ss,
             "mov_producto", PrimerProducto(lp)),
             "mov_tipo", "ENTRADA"),
             "mov_fecha", "hoy"),
             "mov_cantidad", 1),
             "mov_valor", 0),
             "mov_reset")
    ELSE ss

\* Lines 164-173: the defaults of the manual page.
DefectosMov(ss, lp) ==
    PorDefecto(PorDefecto(PorDefecto(PorDefecto(PorDefecto(ss,
        "mov_producto", PrimerProducto(lp)),
        "mov_tipo", "ENTRADA"),
        "mov_fecha", "hoy"),
        "mov_cantidad", 1),
        "mov_valor", 0)

\* Line 210: `if conn: conn.close()`.
Cierre(c) == IF c = "abierta" THEN "cerrada" ELSE c

\* Lines 189-210: the submission of the manual form. st.rerun() (line 204)
\* stops the script inside the try block: line 210 is not reached.
RegistrarMov(btn, prod, connv, ok) ==
    IF ~(btn /\ prod # "") THEN [envio |-> "no", conn |-> Cierre(connv), rerun |-> FALSE]
    ELSE IF connv # "abierta"
         THEN [envio |-> "sinconn", conn |-> Cierre(connv), rerun |-> FALSE]
    ELSE IF ok THEN [envio |-> "ok", conn |-> connv, rerun |-> TRUE]
    ELSE [envio |-> "raise", conn |-> Cierre(connv), rerun |-> FALSE]

\* Lines 265-275: the reset block of the catalog page.
ResetProd(ss, cats) ==
    IF Bandera(ss, "prod_reset")
    THEN LET a == Poner(Poner(Poner(ss, "prod_sku", ""), "prod_nombre", ""),
                        "prod_min_stock", 5)
             b == IF Bandera(a, "prod_use_new_cat") THEN Poner(a, "prod_cat_new", "")
                  ELSE IF cats # <<>> THEN Poner(a, "prod_cat_selected", cats[1])
                  ELSE a
         IN Quitar(b, "prod_reset")
    ELSE ss

\* Lines 278-289: the defaults of the catalog page.
DefectosProd(ss, cats) ==
    LET a == PorDefecto(PorDefecto(PorDefecto(PorDefecto(ss,
                 "prod_sku", ""),
                 "prod_nombre", ""),
                 "prod_min_stock", 5),
                 "prod_use_new_cat", FALSE)
        b == IF ~Tiene(a, "prod_cat_selected") /\ cats # <<>>
             THEN Poner(a, "prod_cat_selected", cats[1]) ELSE a
    IN PorDefecto(b, "prod_cat_new", "")

\* Line 301: the options of the category selectbox.
OpcionesCategoria(cats) == IF cats # <<>> THEN cats ELSE <<"(sin categorías)">>

\* Lines 292-302: the category widgets, outside the form. ok is FALSE when
\* the selectbox of line 301 raises, after line 300.
RadioCategoria(ss, cats, estricto, writeback) ==
    LET modo == IF Tiene(ss, "prod_modo_cat") THEN ss["prod_modo_cat"]
                ELSE IF Bandera(ss, "prod_use_new_cat") THEN "Crear nueva"
                ELSE "Usar existente"
        a == Poner(ss, "prod_modo_cat", modo)
    IN IF modo = "Crear nueva"
       THEN [ok |-> TRUE, ss |-> Poner(a, "prod_use_new_cat", TRUE)]
       ELSE IF estricto /\ ~OpcionValida(ss, "prod_cat_selected", OpcionesCategoria(cats))
       THEN [ok |-> FALSE, ss |-> Poner(a, "prod_use_new_cat", FALSE)]
       ELSE [ok |-> TRUE,
             ss |-> WidgetEstado(Poner(a, "prod_use_new_cat", FALSE),
                                 "prod_cat_selected",
                                 selectbox(ss, "prod_cat_selected", OpcionesCategoria(cats)),
                                 writeback)]

\* Line 312: cat_new.strip() if use_new_cat and cat_new else cat_selected.
\* None is "". The locals are those of lines 294-302: cat_new is what the
\* text input of line 297 returned, cat_selected what the selectbox of line
\* 301 returned, which is not always the value st.session_state holds.
CategoriaFinal(ss, cats) ==
    LET use_new_cat == ss["prod_use_new_cat"]
        cat_new == IF use_new_cat THEN ss["prod_cat_new"] ELSE ""
        cat_selected == IF use_new_cat THEN ""
                        ELSE selectbox(ss, "prod_cat_selected", OpcionesCategoria(cats))
    IN IF use_new_cat /\ cat_new # "" THEN strip(cat_new) ELSE cat_selected

\* Lines 310-326: the submission of the catalog form. conn.close() (line 320)
\* follows cur.execute inside the try block: it is skipped when the
\* procedure raises.
GuardarProducto(submit, categoria_final, okc, ok) ==
    IF ~submit THEN [envio |-> "no", conn |-> "sin", rerun |-> FALSE]
    ELSE IF categoria_final = "" THEN [envio |-> "sincat", conn |-> "sin", rerun |-> FALSE]
    ELSE IF get_connection(okc).conn # "abierta"
         THEN [envio |-> "sinconn", conn |-> "None", rerun |-> FALSE]
    ELSE IF ok THEN [envio |-> "ok", conn |-> "cerrada", rerun |-> TRUE]
    ELSE [envio |-> "raise", conn |-> "abierta", rerun |-> FALSE]

-----------------------------------------------------------------------------
(* The form pages: the actions.                                            *)

Paginas == {"manual", "gestion"}

\* The widget keys of each page and the values the user can give them.
Valores(k) ==
    CASE k = "mov_producto" -> Elementos(lista_prods)
      [] k = "mov_tipo" -> {"ENTRADA", "SALIDA"}
      [] k = "mov_fecha" -> {"hoy", "otro dia"}
      [] k = "mov_cantidad" -> {1, 2}
      [] k = "mov_valor" -> {0, 5}
      [] k = "prod_sku" -> {"", "S1"}
      [] k = "prod_nombre" -> {"", "N1"}
      [] k = "prod_min_stock" -> {5, 10}
      [] k = "prod_modo_cat" -> {"Usar existente", "Crear nueva"}
      [] k = "prod_cat_selected" -> Elementos(OpcionesCategoria(categorias))
      [] k = "prod_cat_new" -> {"", " ", "c3"}

CamposMov == {"mov_producto", "mov_tipo", "mov_fecha", "mov_cantidad", "mov_valor"}
CamposProd == {"prod_sku", "prod_nombre", "prod_min_stock", "prod_modo_cat",
               "prod_cat_selected", "prod_cat_new"}

\* The sidebar radio, line 76. The locals of the run that has ended are gone.
Navegar ==
    /\ fase = "idle"
    /\ \E m \in Paginas \ {menu} : menu' = m
    /\ conn_pag' = "sin"
    /\ ultf' = UltfNada
    /\ UNCHANGED <<fase, session_state, lista_prods, categorias>>
    /\ UNCHANGED varsCarga

\* The user changes a widget of the page on display; Streamlit stores the
\* value under the widget's key before the next run of the script. The
\* locals of the run that has ended are gone.
Editar ==
    /\ fase = "idle"
    /\ \E k \in (IF menu = "manual" THEN CamposMov ELSE CamposProd) \cap DOMAIN session_state :
         \E v \in Valores(k) : session_state' = Poner(session_state, k, v)
    /\ conn_pag' = "sin"
    /\ ultf' = UltfNada
    /\ UNCHANGED <<menu, fase, lista_prods, categorias>>
    /\ UNCHANGED varsCarga

\* Lines 151-173: the manual page up to the form.
ManualInicio ==
    /\ menu = "manual"
    /\ fase \in {"idle", "rerun"}
    /\ \E okc \in BOOLEAN : conn_pag' = get_connection(okc).conn
    /\ \E lp \in ListasProductos :
         /\ lista_prods' = lp
         /\ session_state' = DefectosMov(ResetMov(session_state, lp), lp)
    /\ ultf' = [envio |-> "no", reseteo |-> Bandera(session_state, "mov_reset")]
    /\ fase' = "manual_form"
    /\ UNCHANGED <<menu, categorias>>
    /\ UNCHANGED varsCarga

\* Lines 175-210: the form, its submission, the end of the render. When the
\* selectbox of line 179 raises, the script stops there.
ManualForm ==
    /\ fase = "manual_form"
    /\ \E btn_guardar \in BOOLEAN, ok \in BOOLEAN, estricto \in BOOLEAN,
          writeback \in BOOLEAN :
         LET prod == selectbox(session_state, "mov_producto", lista_prods)
             ss == WidgetEstado(session_state, "mov_producto", prod, writeback)
             r == RegistrarMov(btn_guardar, prod, conn_pag, ok)
         IN IF estricto /\ ~OpcionValida(session_state, "mov_producto", lista_prods)
            THEN /\ fase' = "idle"
                 /\ ultf' = [envio |-> "excepcion", reseteo |-> FALSE]
                 /\ UNCHANGED <<session_state, conn_pag>>
            ELSE /\ session_state' = IF r.envio = "ok"
                                     THEN Poner(ss, "mov_reset", TRUE)
                                     ELSE ss
                 /\ conn_pag' = r.conn
                 /\ fase' = IF r.rerun THEN "rerun" ELSE "idle"
                 /\ ultf' = [envio |-> r.envio, reseteo |-> FALSE]
    /\ UNCHANGED <<menu, lista_prods, categorias>>
    /\ UNCHANGED varsCarga

\* Lines 262-289: the catalog page up to the widgets.
GestionInicio ==
    /\ menu = "gestion"
    /\ fase \in {"idle", "rerun"}
    /\ \E cats \in ListasCategorias :
         /\ categorias' = cats
         /\ session_state' = DefectosProd(ResetProd(session_state, cats), cats)
    /\ conn_pag' = "sin"
    /\ ultf' = [envio |-> "no", reseteo |-> Bandera(session_state, "prod_reset")]
    /\ fase' = "gestion_radio"
    /\ UNCHANGED <<menu, lista_prods>>
    /\ UNCHANGED varsCarga

\* Lines 292-302. When the selectbox of line 301 raises, the script stops
\* there.
GestionRadio ==
    /\ fase = "gestion_radio"
    /\ \E estricto \in BOOLEAN, writeback \in BOOLEAN :
         LET r == RadioCategoria(session_state, categorias, estricto, writeback)
         IN /\ session_state' = r.ss
            /\ fase' = IF r.ok THEN "gestion_form" ELSE "idle"
            /\ ultf' = IF r.ok THEN ultf ELSE [envio |-> "excepcion", reseteo |-> FALSE]
    /\ UNCHANGED <<menu, conn_pag, lista_prods, categorias>>
    /\ UNCHANGED varsCarga

\* Lines 304-326: the form, its submission, the end of the render.
GestionForm ==
    /\ fase = "gestion_form"
    /\ \E submit \in BOOLEAN, okc \in BOOLEAN, ok \in BOOLEAN :
         LET r == GuardarProducto(submit, CategoriaFinal(session_state, categorias), okc, ok)
         IN /\ session_state' = IF r.envio = "ok"
                                THEN Poner(session_state, "prod_reset", TRUE)
                                ELSE session_state
            /\ conn_pag' = r.conn
            /\ fase' = IF r.rerun THEN "rerun" ELSE "idle"
            /\ ultf' = [envio |-> r.envio, reseteo |-> FALSE]
    /\ UNCHANGED <<menu, lista_prods, categorias>>
    /\ UNCHANGED varsCarga

NextForms ==
    \/ Navegar
    \/ Editar
    \/ ManualInicio
    \/ ManualForm
    \/ GestionInicio
    \/ GestionRadio
    \/ GestionForm

SpecForms == Init /\ [][NextForms]_vars


Next == Leer \/ LeerFalla \/ Procesar \/ Fila \/ Cerrar

Spec == Init /\ [][Next]_vars

-----------------------------------------------------------------------------
(* Carga Masiva: the claims.                                               *)

Terminado == pc \in {"fin", "error"}

\* The last iteration read a row whose SKU cell is there and not null.
UltConSku ==
    /\ ult.res # ""
    /\ "Código" \in DOMAIN ult.fila
    /\ notna(ult.fila["Código"])

\* C1: success_count + len(failures) + skipped rows equals the number of rows
\* handled so far, hence the number of input rows once the loop has finished:
\* each row is counted once, as a success, a failure or a skip.
C1_Conteo ==
    /\ exitos + Len(errores) + saltadas = pos
    /\ (pc = "fin" \/ (pc = "loop" /\ pos = df_upload.filas))
          => exitos + Len(errores) + saltadas = df_upload.filas

C1_Witness ==
    /\ pc = "fin"
    /\ exitos = 1
    /\ Len(errores) = 1
    /\ saltadas = 1

\* The run acquired its connection and the file holds the three columns.
Favorable == conn \in {"abierta", "cerrada"} /\ df_upload.cols = Columnas

\* C2 (as claimed), for runs that acquired their connection: once the run has
\* ended, if a row ended in a failure, or an exception was raised while a row
\* was handled, every row of the input has been processed.
C2_Aislamiento ==
    (Favorable /\ Terminado /\ (errores # <<>> \/ ult.barra = "raise"))
        => pos = df_upload.filas

\* C3 (as claimed), for runs that acquired their connection: a row whose SKU
\* is null is skipped, whatever the columns of the file: no store call, no
\* success, no failure entry.
C3_SkuNuloSaltada ==
    (/\ conn \in {"abierta", "cerrada"}
     /\ ult.res # ""
     /\ "Código" \in DOMAIN ult.fila
     /\ isna(ult.fila["Código"]))
        => (ult.res = "salto" /\ ~ult.llamada.hecha)

\* The quantity (unit value) of a row is absent or non-numeric: the column is
\* missing, the cell is null, or int() (float()) rejects it.
CantAusente(f) == "cant" \notin DOMAIN f \/ isna(f["cant"]) \/ ~int(f["cant"]).ok
ValAusente(f) ==
    "Valor Unitar" \notin DOMAIN f \/ isna(f["Valor Unitar"]) \/ ~float(f["Valor Unitar"]).ok

\* C4 (as claimed), for runs that acquired their connection: for a row with a
\* SKU whose quantity or unit value is absent or non-numeric, the store call
\* is made with zero for that value.
C4_DefectoCero ==
    (conn \in {"abierta", "cerrada"} /\ UltConSku /\ (CantAusente(ult.fila) \/ ValAusente(ult.fila)))
        => /\ ult.llamada.hecha
           /\ CantAusente(ult.fila) => ult.llamada.cantidad = 0
           /\ ValAusente(ult.fila) => (ult.llamada.valor = 0 /\ ~ult.llamada.nan)

\* C5 (as claimed), on files with the three columns read with the default
\* positional index, the connection acquired: the progress values never decrease, one is emitted after each row, and the
\* value 1.0 (numerator = number of rows) is emitted exactly when the last row
\* has been processed.
C5_Progreso ==
    (Favorable /\ df_upload.indice = "range" /\ pc \in {"loop", "fin"}) =>
        /\ \A i, j \in DOMAIN barra : i < j => barra[i] <= barra[j]
        /\ Len(barra) = pos + 1
        /\ (df_upload.filas > 0 /\ pos = df_upload.filas)
              <=> (\E i \in DOMAIN barra : barra[i] = df_upload.filas /\ barra[i] > 0)

\* C6 (as claimed), on files with the three columns: when get_connection
\* fails, no row is iterated, no failure is recorded and no report is produced.
C6_SinConexionAborta ==
    (conn = "None" /\ df_upload.cols = Columnas)
        => (pos = 0 /\ errores = <<>> /\ pc # "fin")

\* C7 (as claimed), on files with the three columns: no run ends with its
\* connection still open.
C7_ConexionLiberada ==
    (Terminado /\ df_upload.cols = Columnas) => conn # "abierta"

\* C8 (as claimed), for runs that acquired their connection: store calls are
\* issued in increasing row position, and the row indexes tagged on the
\* failures are strictly increasing in report order.
C8_Orden ==
    Favorable =>
    /\ \A i, j \in DOMAIN llamadas : i < j => llamadas[i] < llamadas[j]
    /\ \A i, j \in DOMAIN errores : i < j =>
           /\ ~errores[i].fila.txt
           /\ ~errores[j].fila.txt
           /\ errores[i].fila.n < errores[j].fila.n

-----------------------------------------------------------------------------
(* The form pages: the claims.                                             *)

\* C9 (as claimed): when a render of the manual page or of the catalog page
\* has ended (the script ran to its end, or st.rerun() stopped it), the
\* connection that render opened is closed. Renders that a widget stopped
\* with an exception are left aside.
C9_ConexionesCerradas ==
    (fase \in {"idle", "rerun"} /\ ultf.envio # "excepcion") => conn_pag # "abierta"

EnvioFallido == {"raise", "sinconn", "sincat"}

\* The script's defaults of the manual form, for the product list of the render.
MovEnDefecto(ss, lp) ==
    /\ ss["mov_producto"] = PrimerProducto(lp)
    /\ ss["mov_tipo"] = "ENTRADA"
    /\ ss["mov_fecha"] = "hoy"
    /\ ss["mov_cantidad"] = 1
    /\ ss["mov_valor"] = 0

\* The script's defaults of the catalog form, for the categories of the render.
ProdEnDefecto(ss, cats) ==
    /\ ss["prod_sku"] = ""
    /\ ss["prod_nombre"] = ""
    /\ ss["prod_min_stock"] = 5
    /\ IF ss["prod_use_new_cat"] THEN ss["prod_cat_new"] = ""
       ELSE cats # <<>> => ss["prod_cat_selected"] = cats[1]

\* st.session_state holds the same keys, the flags among them, and every
\* field holds the value it held. The one field left aside is a product
\* choice that is not among the options of the render: it is not a value the
\* user picked in this list, and the selectbox of line 179 may put its first
\* option in its place.
CamposIntactos(ss, tt, lp) ==
    /\ DOMAIN tt = DOMAIN ss
    /\ \A k \in DOMAIN ss :
          \/ tt[k] = ss[k]
          \/ k = "mov_producto" /\ ~OpcionValida(ss, k, lp)

\* The fields the page already held keep their values.
Conserva(campos, ss, tt) == \A k \in campos \cap DOMAIN ss : k \in DOMAIN tt /\ tt[k] = ss[k]

\* C10: the reset flags mov_reset / prod_reset.
\*  - a flag becomes set only in the form step whose stored-procedure call
\*    returned without error;
\*  - the part of the next render that precedes the widgets puts the fields
\*    at their defaults and removes the flag: no flag is set while the
\*    widgets of its page are created;
\*  - a submission that fails (the procedure raises, no connection, no
\*    category) sets no flag and leaves the values the user gave to the
\*    fields, and a render that finds no flag keeps the values the fields
\*    hold.
C10_Banderas ==
    /\ [](fase = "manual_form" => ~Tiene(session_state, "mov_reset"))
    /\ [](fase \in {"gestion_radio", "gestion_form"} => ~Tiene(session_state, "prod_reset"))
    /\ [][(~Bandera(session_state, "mov_reset") /\ Bandera(session_state', "mov_reset"))
            => (fase = "manual_form" /\ ultf'.envio = "ok")]_vars
    /\ [][(~Bandera(session_state, "prod_reset") /\ Bandera(session_state', "prod_reset"))
            => (fase = "gestion_form" /\ ultf'.envio = "ok")]_vars
    /\ [][(Bandera(session_state, "mov_reset") /\ fase' = "manual_form")
            => MovEnDefecto(session_state', lista_prods')]_vars
    /\ [][(Bandera(session_state, "prod_reset") /\ fase' = "gestion_radio")
            => ProdEnDefecto(session_state', categorias')]_vars
    /\ [][(fase \in {"manual_form", "gestion_form"} /\ ultf'.envio \in EnvioFallido)
            => CamposIntactos(session_state, session_state', lista_prods)]_vars
    /\ [][(~Bandera(session_state, "mov_reset") /\ fase' = "manual_form")
            => Conserva(CamposMov, session_state, session_state')]_vars
    /\ [][(~Bandera(session_state, "prod_reset") /\ fase' = "gestion_radio")
            => Conserva(CamposProd, session_state, session_state')]_vars

\* The render that follows an accepted submission of the manual form has run
\* its reset block: the fields the user had changed are at their defaults.
C10_Witness ==
    /\ fase = "manual_form"
    /\ ultf.reseteo
    /\ ~Tiene(session_state, "mov_reset")
    /\ MovEnDefecto(session_state, lista_prods)

====
